---------------------------- MODULE Spec2Model ----------------------------
(***************************************************************************)
(* Smart Legal Assistant: src/src/smart_legal_assistant.py (the /analyze   *)
(* pipeline) and src/app.py (the legacy endpoints).                        *)
(*                                                                         *)
(* A Python str is a sequence of one-character strings.  The external      *)
(* capabilities (the summarization pipeline, the text-classification       *)
(* pipeline, pdfminer, the file system) are the environment: every call to *)
(* one of them is a choice among the results it can give, failure          *)
(* included.                                                               *)
(***************************************************************************)
EXTENDS Integers, Sequences, FiniteSets, TLC

VARIABLES
    pc,               \* position of the running call
    exc,              \* the exception that left the call, NoExc if none
    ret,              \* value returned by the last call that returned
    _summarizer,      \* module-level handle, None until constructed
    _nli_classifier,  \* module-level handle, None until constructed
    ctorCalls,        \* history: pipeline() invocations so far, per task
    platform,         \* os.name of the process
    tmp,              \* extract_text_from_upload: the temporary file
    pend,             \* extract_text_from_upload: exception in flight
    req,              \* the request being served
    nreq,             \* history: requests / calls started so far
    doc_text,         \* analyze_document: local doc_text
    summary,          \* analyze_document: local summary
    response,         \* the handler's response, <<>> while there is none
    done,             \* history: pipeline stages completed for the request
    text,             \* parameter text of extract_clauses / summarize_text
    max_clauses,      \* parameter max_clauses of extract_clauses
    clauses,          \* list returned by extract_clauses
    chunks,           \* summarize_text: local chunks
    partials,         \* summarize_text: local partials, as built so far
    sumLog,           \* history: the summarizer invocations of the call
    nli_clauses,      \* parameter clauses of flag_risks_with_nli
    clause_i,         \* flag_risks_with_nli: index of the clause scanned
    hyp_i,            \* flag_risks_with_nli: index of the hypothesis
    flagged,          \* flag_risks_with_nli: local flagged
    scan,             \* history: pairs the capability judged entailed
    nliCalls,         \* history: entailment invocations of the request
    uploads           \* legacy endpoints: files present in UPLOAD_DIR

hvars == <<_summarizer, _nli_classifier, ctorCalls>>
fvars == <<tmp, pend>>
rvars == <<req, nreq, doc_text, summary, response, done>>
cvars == <<max_clauses, clauses>>
svars == <<chunks, partials, sumLog>>
nvars == <<nli_clauses, clause_i, hyp_i, flagged, scan, nliCalls>>
vars == <<pc, exc, ret, hvars, platform, fvars, rvars, text, cvars, svars,
          nvars, uploads>>

NoExc == "none"

(***************************************************************************)
(* Characters and str helpers.                                             *)
(***************************************************************************)
NL == "\n"

\* the characters str.strip(), str.split() and the regex class \s treat as
\* white space, among those the inputs use
WhiteSpace == {" ", "\t", "\n", "\r", "\f"}

IsSpace(c) == c \in WhiteSpace

Min2(a, b) == IF a <= b THEN a ELSE b

\* s * n for a one-character s
Repeat(c, n) == [i \in 1..n |-> c]

\* smallest j in i..Len(t) with t[j] = NL, Len(t)+1 if there is none
NextNewline(t, i) ==
    CHOOSE j \in i..(Len(t) + 1) :
        /\ (j = Len(t) + 1 \/ t[j] = NL)
        /\ \A k \in i..(j - 1) : t[k] # NL

\* last index of the run of newlines that starts at i (t[i] = NL)
NewlineRunEnd(t, i) ==
    CHOOSE j \in i..Len(t) :
        /\ (j = Len(t) \/ t[j + 1] # NL)
        /\ \A k \in i..j : t[k] = NL

\* last index of the run of white space that starts at i (t[i] is white space)
SpaceRunEnd(t, i) ==
    CHOOSE j \in i..Len(t) :
        /\ (j = Len(t) \/ ~IsSpace(t[j + 1]))
        /\ \A k \in i..j : IsSpace(t[k])

\* str.strip()
Strip(p) ==
    LET n == Len(p)
        first == CHOOSE j \in 1..(n + 1) :
                    /\ (j = n + 1 \/ ~IsSpace(p[j]))
                    /\ \A k \in 1..(j - 1) : IsSpace(p[k])
        last == CHOOSE j \in 0..n :
                    /\ (j = 0 \/ ~IsSpace(p[j]))
                    /\ \A k \in (j + 1)..n : IsSpace(p[k])
    IN  SubSeq(p, first, last)

(***************************************************************************)
(* extract_clauses                                                         *)
(***************************************************************************)
MinClauseLen == 40
DefaultMaxClauses == 20

\* re.sub(r"\n{2,}", "\n\n", text), scanning from index i: the leftmost run
\* of two or more newlines is replaced by exactly two, then the scan goes on
\* after the run
RECURSIVE SubNewlinesFrom(_, _)
SubNewlinesFrom(t, i) ==
    IF i > Len(t) THEN <<>>
    ELSE LET j == NextNewline(t, i)
         IN  IF j > Len(t) THEN SubSeq(t, i, Len(t))
             ELSE LET e == NewlineRunEnd(t, j)
                  IN  IF e > j
                      THEN SubSeq(t, i, j - 1) \o <<NL, NL>>
                               \o SubNewlinesFrom(t, e + 1)
                      ELSE SubSeq(t, i, j) \o SubNewlinesFrom(t, j + 1)

SubNewlines(t) == SubNewlinesFrom(t, 1)

\* where a match of \n\s*\n that starts at i (t[i] = NL) ends: \s* is greedy,
\* so the match runs to the last newline of the white space after i; i itself
\* when that white space holds no other newline (no match at i)
SplitMatchEnd(t, i) ==
    LET w == SpaceRunEnd(t, i)
    IN  CHOOSE j \in i..w :
            /\ (j = i \/ t[j] = NL)
            /\ \A k \in (j + 1)..w : t[k] # NL

\* re.split(r"\n\s*\n", text): the pieces between the matches, the piece
\* being read starting at index start and the search for a match at i
RECURSIVE SplitParasFrom(_, _, _)
SplitParasFrom(t, start, i) ==
    LET j == NextNewline(t, i)
    IN  IF j > Len(t) THEN <<SubSeq(t, start, Len(t))>>
        ELSE LET e == SplitMatchEnd(t, j)
             IN  IF e > j
                 THEN <<SubSeq(t, start, j - 1)>>
                          \o SplitParasFrom(t, e + 1, e + 1)
                 ELSE SplitParasFrom(t, start, j + 1)

SplitParas(t) == SplitParasFrom(t, 1, 1)

\* [p.strip() for p in re.split(...) if p.strip()]
Paras(t) ==
    LET pieces == SplitParas(SubNewlines(t))
        stripped == [k \in 1..Len(pieces) |-> Strip(pieces[k])]
    IN  SelectSeq(stripped, LAMBDA p : p # <<>>)

\* faulty variant of KeepsClause: the length floor is lost
KeepsClauseNoFloor(p) == Len(p) > 0

\* the test of line 102
KeepsClause(p) == Len(p) > MinClauseLen

\* the test of line 104, made after the append of line 103
ReachedMax(acc, max) == Len(acc) >= max

\* the loop of lines 101-105 from paragraph k on, acc the clauses so far
RECURSIVE ClauseLoop(_, _, _, _)
ClauseLoop(paras, k, acc, max) ==
    IF k > Len(paras) THEN acc
    ELSE LET acc2 == IF KeepsClause(paras[k]) THEN Append(acc, paras[k])
                     ELSE acc
         IN  IF ReachedMax(acc2, max) THEN acc2
             ELSE ClauseLoop(paras, k + 1, acc2, max)

extract_clauses(t, max) == ClauseLoop(Paras(t), 1, <<>>, max)

(***************************************************************************)
(* chunk_text and the str helpers of summarize_text                        *)
(***************************************************************************)
ChunkThreshold == 800
ChunkWords == 700
ChunkMaxLength == 120
DirectMinLength == 30
ReduceMinLength == 50
DefaultMaxLength == 200

\* a word of str.split() starts at i
IsWordStart(t, i) == ~IsSpace(t[i]) /\ (i = 1 \/ IsSpace(t[i - 1]))

\* last index of the word that starts at i
WordEnd(t, i) ==
    CHOOSE j \in i..Len(t) :
        /\ (j = Len(t) \/ IsSpace(t[j + 1]))
        /\ \A k \in i..j : ~IsSpace(t[k])

\* the word starts among lo..hi, in increasing order
RECURSIVE WordStartsIn(_, _, _)
WordStartsIn(t, lo, hi) ==
    IF lo > hi THEN <<>>
    ELSE IF lo = hi THEN (IF IsWordStart(t, lo) THEN <<lo>> ELSE <<>>)
    ELSE LET mid == (lo + hi) \div 2
         IN  WordStartsIn(t, lo, mid) \o WordStartsIn(t, mid + 1, hi)

\* text.split()
Words(t) ==
    LET starts == WordStartsIn(t, 1, Len(t))
    IN  [k \in 1..Len(starts) |-> SubSeq(t, starts[k], WordEnd(t, starts[k]))]

\* " ".join(ws[lo..hi])
RECURSIVE JoinRange(_, _, _)
JoinRange(ws, lo, hi) ==
    IF lo > hi THEN <<>>
    ELSE IF lo = hi THEN ws[lo]
    ELSE LET mid == (lo + hi) \div 2
         IN  JoinRange(ws, lo, mid) \o <<" ">> \o JoinRange(ws, mid + 1, hi)

Join(ws) == JoinRange(ws, 1, Len(ws))

\* range(0, n, step) as the sequence of its values
RangeStep(n, step) == [k \in 1..((n + step - 1) \div step) |-> (k - 1) * step]

\* words[i:i + max_words] for a 0-based i
WordSlice(words, i, max_words) ==
    SubSeq(words, i + 1, Min2(i + max_words, Len(words)))

chunk_text(t, max_words) ==
    LET words == Words(t)
        offs == RangeStep(Len(words), max_words)
    IN  [k \in 1..Len(offs) |-> Join(WordSlice(words, offs[k], max_words))]

\* faulty variant of IsShortText: a text of exactly 800 words is not chunked
IsShortTextInclusive(t) == Len(Words(t)) <= ChunkThreshold

\* the test of line 123
IsShortText(t) == Len(Words(t)) < ChunkThreshold

(***************************************************************************)
(* The findings of flag_risks_with_nli                                     *)
(***************************************************************************)
ExcerptLen == 200
\* the threshold 0.6 of line 164; scores are counted in hundredths
ScoreThreshold == 60

\* U+2192, the one character between hypothesis and excerpt
RightArrow == "->"

hypotheses == <<
  <<"T","h","i","s"," ","c","l","a","u","s","e"," ","a","l","l","o","w","s",
    " ","t","e","r","m","i","n","a","t","i","o","n"," ","w","i","t","h","o",
    "u","t"," ","n","o","t","i","c","e",".">>,
  <<"T","h","i","s"," ","c","l","a","u","s","e"," ","r","e","m","o","v","e",
    "s"," ","o","r"," ","l","i","m","i","t","s"," ","l","i","a","b","i","l",
    "i","t","y",".">>,
  <<"T","h","i","s"," ","c","l","a","u","s","e"," ","a","l","l","o","w","s",
    " ","a","u","t","o","m","a","t","i","c"," ","r","e","n","e","w","a","l",
    ".">>,
  <<"T","h","i","s"," ","c","l","a","u","s","e"," ","a","l","l","o","w","s",
    " ","u","n","i","l","a","t","e","r","a","l"," ","a","m","e","n","d","m",
    "e","n","t",".">> >>

UpperAlpha == <<"A","B","C","D","E","F","G","H","I","J","K","L","M","N","O",
                "P","Q","R","S","T","U","V","W","X","Y","Z">>
LowerAlpha == <<"a","b","c","d","e","f","g","h","i","j","k","l","m","n","o",
                "p","q","r","s","t","u","v","w","x","y","z">>

ToUpperChar(c) ==
    IF \E i \in 1..26 : LowerAlpha[i] = c
    THEN UpperAlpha[CHOOSE i \in 1..26 : LowerAlpha[i] = c] ELSE c

ToLowerChar(c) ==
    IF \E i \in 1..26 : UpperAlpha[i] = c
    THEN LowerAlpha[CHOOSE i \in 1..26 : UpperAlpha[i] = c] ELSE c

\* str.upper(), str.lower()
Upper(s) == [i \in 1..Len(s) |-> ToUpperChar(s[i])]
Lower(s) == [i \in 1..Len(s) |-> ToLowerChar(s[i])]

\* sub in s
Contains(s, sub) ==
    \E i \in 1..(Len(s) - Len(sub) + 1) : SubSeq(s, i, i + Len(sub) - 1) = sub

\* s.endswith(suffix)
EndsWith(s, suffix) ==
    /\ Len(s) >= Len(suffix)
    /\ SubSeq(s, Len(s) - Len(suffix) + 1, Len(s)) = suffix

\* clause[:200]
Excerpt(clause) == SubSeq(clause, 1, Min2(ExcerptLen, Len(clause)))

\* f"{h} -> {clause[:200]}..." of line 165
FormatFinding(h, clause) ==
    h \o <<" ", RightArrow, " ">> \o Excerpt(clause) \o <<".", ".", ".">>

\* the test of line 164 on the top result
IsRisk(top) ==
    /\ Contains(Upper(top.label), <<"E","N","T","A","I","L">>)
    /\ top.score > ScoreThreshold

\* list(dict.fromkeys(flagged)): the keys are inserted in order, a key that
\* is already there keeps its place
RECURSIVE FromKeys(_, _, _)
FromKeys(s, k, keys) ==
    IF k > Len(s) THEN keys
    ELSE FromKeys(s, k + 1,
                  IF \E j \in 1..Len(keys) : keys[j] = s[k] THEN keys
                  ELSE Append(keys, s[k]))

\* faulty variant of DictFromKeys: the list is returned as it is
KeepAllFindings(s) == s

DictFromKeys(s) == FromKeys(s, 1, <<>>)

(***************************************************************************)
(* Optional values and the module-level handles                            *)
(***************************************************************************)
\* Python's None; a value that is present is a non-empty tuple
None == <<>>
Some(x) == <<x>>

\* faulty variant of NeedsCtor: the handle is built on every call
AlwaysNeedsCtor(handle) == TRUE

\* the tests `_summarizer is None` (line 52), `_nli_classifier is None`
\* (line 59)
NeedsCtor(handle) == handle = None

\* the object the n-th pipeline(task, ...) invocation returns
NewPipeline(task, n) == <<task, n>>

\* get_summarizer(); ok: whether pipeline(), if it is invoked, succeeds
get_summarizer(ok) ==
    /\ IF NeedsCtor(_summarizer)
       THEN /\ ctorCalls' = [ctorCalls EXCEPT !.summarization = @ + 1]
            /\ _summarizer' =
                   IF ok THEN NewPipeline("summarization",
                                          ctorCalls.summarization + 1)
                   ELSE _summarizer
       ELSE UNCHANGED <<ctorCalls, _summarizer>>
    /\ UNCHANGED _nli_classifier

\* get_nli()
get_nli(ok) ==
    /\ IF NeedsCtor(_nli_classifier)
       THEN /\ ctorCalls' = [ctorCalls EXCEPT !.classification = @ + 1]
            /\ _nli_classifier' =
                   IF ok THEN NewPipeline("text-classification",
                                          ctorCalls.classification + 1)
                   ELSE _nli_classifier
       ELSE UNCHANGED <<ctorCalls, _nli_classifier>>
    /\ UNCHANGED _summarizer

(***************************************************************************)
(* Bounds and inputs                                                       *)
(***************************************************************************)
MaxSegs == 5          \* segments a text given to extract_clauses is made of
MaxClausesArg == 2    \* largest max_clauses given to extract_clauses
MaxChunksIn == 3      \* chunks a text given to summarize_text is cut into
MaxClausesIn == 2     \* clauses given to flag_risks_with_nli
MaxRequests == 2      \* requests served by one process
MaxCalls == 5         \* get_summarizer / get_nli calls of one process

ScenarioPara1 ==
  <<"T","e","r","m",":"," ","T","h","i","s"," ","A","g","r","e","e","m","e",
    "n","t"," ","m","a","y"," ","b","e"," ","t","e","r","m","i","n","a","t",
    "e","d"," ","i","m","m","e","d","i","a","t","e","l","y"," ","w","i","t",
    "h","o","u","t"," ","n","o","t","i","c","e",".">>
ScenarioPara2 ==
  <<"P","a","y","m","e","n","t",":"," ","I","n","v","o","i","c","e","s"," ",
    "a","r","e"," ","d","u","e"," ","i","n"," ","3","0"," ","d","a","y","s",
    ".">>
\* the two-paragraph text of the end-to-end scenario
ScenarioText == ScenarioPara1 \o <<NL, NL>> \o ScenarioPara2

\* the pieces the texts given to extract_clauses are made of: a paragraph
\* one character over the floor, one exactly at it, a break, a newline, a blank
Segments == { Repeat("x", MinClauseLen + 1), Repeat("y", MinClauseLen),
              <<NL, NL>>, <<NL>>, <<" ">> }

RECURSIVE TextsOf(_)
TextsOf(n) ==
    IF n = 0 THEN {<<>>}
    ELSE LET shorter == TextsOf(n - 1)
         IN  shorter \cup {s \o t : s \in Segments, t \in shorter}

ClauseTexts == TextsOf(MaxSegs) \cup {ScenarioText}

\* a text of w one-letter words: style 1 puts one blank between two words,
\* style 2 a blank before and a newline after every word
WordLetter(k) == <<"a", "b", "c">>[(k % 3) + 1]
TextOfWords(w, style) ==
    IF style = 1
    THEN [i \in 1..(IF w = 0 THEN 0 ELSE 2 * w - 1) |->
             IF i % 2 = 1 THEN WordLetter((i + 1) \div 2) ELSE " "]
    ELSE [i \in 1..(3 * w) |->
             IF i % 3 = 1 THEN " "
             ELSE IF i % 3 = 2 THEN WordLetter((i + 1) \div 3) ELSE NL]

\* word counts around the threshold and around every multiple of the chunk
\* size, and the 2000 words of the end-to-end scenario
WordCounts ==
    { w \in {0, 1, ChunkThreshold - 1, ChunkThreshold, 2000}
            \cup { k * ChunkWords + d : k \in 2..MaxChunksIn, d \in {-1, 0, 1} } :
        w <= MaxChunksIn * ChunkWords }

SummaryTexts == { TextOfWords(w, style) : w \in WordCounts, style \in {1, 2} }

\* what the summarization capability answers: the summary_text of its top
\* candidate
SummaryPool == { <<"s", "1">>, <<"s", " ", "2">> }

\* clauses given to flag_risks_with_nli: a short one, one as long as the
\* excerpt, and one that differs from it only after the excerpt
ClausePool == { Repeat("a", MinClauseLen + 1),
                Repeat("b", ExcerptLen),
                Append(Repeat("b", ExcerptLen), "c") }

RECURSIVE SeqsOver(_, _)
SeqsOver(S, n) ==
    IF n = 0 THEN {<<>>}
    ELSE LET shorter == SeqsOver(S, n - 1)
         IN  shorter \cup {Append(t, x) : t \in shorter, x \in S}

ClauseLists == SeqsOver(ClausePool, MaxClausesIn)

\* what one call of the entailment capability does: it raises, or its top
\* result has a label and a score (in hundredths)
NliOutcomes ==
    { [raises |-> TRUE, label |-> <<>>, score |-> 0],
      [raises |-> FALSE, label |-> <<"E","N","T","A","I","L","M","E","N","T">>,
       score |-> ScoreThreshold + 1],
      [raises |-> FALSE, label |-> <<"e","n","t","a","i","l","m","e","n","t">>,
       score |-> 97],
      [raises |-> FALSE, label |-> <<"E","N","T","A","I","L","M","E","N","T">>,
       score |-> ScoreThreshold],
      [raises |-> FALSE, label |-> <<"N","E","U","T","R","A","L">>,
       score |-> 99] }

(***************************************************************************)
(* Initial values                                                          *)
(***************************************************************************)
NoHandles ==
    /\ _summarizer = None
    /\ _nli_classifier = None
    /\ ctorCalls = [summarization |-> 0, classification |-> 0]

\* the locals of a call that has not started
FreshLocals ==
    /\ exc = NoExc /\ ret = None
    /\ tmp = "none" /\ pend = NoExc
    /\ doc_text = <<>> /\ summary = <<>> /\ response = <<>> /\ done = {}
    /\ chunks = <<>> /\ partials = <<>> /\ sumLog = <<>>
    /\ clause_i = 1 /\ hyp_i = 1 /\ flagged = <<>> /\ scan = <<>>
    /\ nliCalls = 0
    /\ uploads = {}

(***************************************************************************)
(* extract_clauses called on its own                                       *)
(***************************************************************************)
InitClauses ==
    /\ pc = "clauses_call"
    /\ text \in ClauseTexts
    /\ max_clauses \in (0..MaxClausesArg) \cup {DefaultMaxClauses}
    /\ clauses = <<>>
    /\ nli_clauses = <<>>
    /\ req = None /\ nreq = 0 /\ platform = "posix"
    /\ NoHandles /\ FreshLocals

ExtractClauses ==
    /\ pc = "clauses_call"
    /\ clauses' = extract_clauses(text, max_clauses)
    /\ pc' = "clauses_returned"
    /\ UNCHANGED <<exc, ret, hvars, platform, fvars, rvars, text, max_clauses,
                   svars, nvars, uploads>>

NextClauses == ExtractClauses

SpecClauses == InitClauses /\ [][NextClauses]_vars

(***************************************************************************)
(* extract_text_from_upload                                                *)
(***************************************************************************)
\* an exception leaves the running call
Raise(e) == pc' = "raised" /\ exc' = e

PdfSuffix == <<".", "p", "d", "f">>

\* (upload.filename or "").lower() of line 74
LoweredName(upload) ==
    Lower(IF upload.filename = None THEN <<>> ELSE upload.filename[1])

\* the test of line 77
IsPdfName(filename) == EndsWith(filename, PdfSuffix)

\* lines 74-77: the bytes are read, the file name decides the branch
UploadRead ==
    /\ pc = "upload_read"
    /\ pc' = IF IsPdfName(LoweredName(req.file[1])) THEN "tmp_create"
             ELSE "decode"
    /\ UNCHANGED <<exc, ret, hvars, platform, fvars, rvars, text, cvars,
                   svars, nvars, uploads>>

\* line 79: NamedTemporaryFile(delete=False) creates and opens the file, or
\* fails before the try statement is entered
TmpCreate ==
    /\ pc = "tmp_create"
    /\ \E ok \in BOOLEAN :
          IF ok THEN tmp' = "open" /\ pc' = "tmp_write" /\ UNCHANGED exc
          ELSE Raise("OSError") /\ UNCHANGED tmp
    /\ UNCHANGED <<ret, hvars, platform, pend, rvars, text, cvars, svars,
                   nvars, uploads>>

\* line 81: tmp.write(contents); a failure goes to the finally clause with
\* the file still open
TmpWrite ==
    /\ pc = "tmp_write"
    /\ \E ok \in BOOLEAN :
          IF ok THEN pc' = "tmp_close" /\ UNCHANGED pend
          ELSE pend' = "OSError" /\ pc' = "finally"
    /\ UNCHANGED <<exc, ret, hvars, platform, tmp, rvars, text, cvars, svars,
                   nvars, uploads>>

\* line 82: tmp.close(); the descriptor is released even when the flush it
\* makes fails
TmpClose ==
    /\ pc = "tmp_close"
    /\ tmp' = "closed"
    /\ \E ok \in BOOLEAN :
          IF ok THEN pc' = "pdf_extract" /\ UNCHANGED pend
          ELSE pend' = "OSError" /\ pc' = "finally"
    /\ UNCHANGED <<exc, ret, hvars, platform, rvars, text, cvars, svars,
                   nvars, uploads>>

\* line 83: pdf_extract_text(tmp.name) gives the text or fails
PdfExtract ==
    /\ pc = "pdf_extract"
    /\ \E ok \in BOOLEAN :
          IF ok THEN ret' = req.file[1].pdf /\ UNCHANGED pend
          ELSE pend' = "PDFSyntaxError" /\ UNCHANGED ret
    /\ pc' = "finally"
    /\ UNCHANGED <<exc, hvars, platform, tmp, rvars, text, cvars, svars,
                   nvars, uploads>>

\* os.unlink of a file this process still holds open: Windows refuses it
\* (PermissionError, the lock line 82 releases), POSIX removes the name
UnlinkFails(os_name, state) == os_name = "nt" /\ state = "open"

\* lines 84-85: the finally clause; an exception of os.unlink replaces the
\* one in flight, otherwise the one in flight goes on, otherwise the call
\* returns the extracted text
Finally ==
    /\ pc = "finally"
    /\ IF UnlinkFails(platform, tmp)
       THEN Raise("PermissionError") /\ UNCHANGED tmp
       ELSE /\ tmp' = "removed"
            /\ IF pend # NoExc THEN Raise(pend)
               ELSE pc' = "upload_returned" /\ UNCHANGED exc
    /\ UNCHANGED <<ret, hvars, platform, pend, rvars, text, cvars, svars,
                   nvars, uploads>>

\* lines 88-91: utf-8, and latin-1 when utf-8 fails
DecodeContents(upload) ==
    IF upload.utf8 # None THEN upload.utf8[1] ELSE upload.latin1

Decode ==
    /\ pc = "decode"
    /\ ret' = DecodeContents(req.file[1])
    /\ pc' = "upload_returned"
    /\ UNCHANGED <<exc, hvars, platform, fvars, rvars, text, cvars, svars,
                   nvars, uploads>>

(***************************************************************************)
(* summarize_text                                                          *)
(***************************************************************************)
\* one invocation summarizer(input, max_length=.., min_length=..,
\* truncation=True), as the history records it; output is the summary_text
\* of the top candidate, None when the invocation raised
SummarizerCall(input, max_length, min_length, output) ==
    [input |-> input, max_length |-> max_length, min_length |-> min_length,
     output |-> output]

\* line 121
SumGetSummarizer ==
    /\ pc = "sum_get"
    /\ \E ok \in BOOLEAN :
          /\ ok \/ NeedsCtor(_summarizer)
          /\ get_summarizer(ok)
          /\ IF ok THEN pc' = "sum_branch" /\ UNCHANGED exc
             ELSE Raise("PipelineError")
    /\ UNCHANGED <<ret, platform, fvars, rvars, text, cvars, svars, nvars,
                   uploads>>

\* lines 123 and 131
SumBranch ==
    /\ pc = "sum_branch"
    /\ IF IsShortText(text)
       THEN pc' = "sum_direct" /\ UNCHANGED chunks
       ELSE pc' = "sum_chunks" /\ chunks' = chunk_text(text, ChunkWords)
    /\ partials' = <<>>
    /\ UNCHANGED <<exc, ret, hvars, platform, fvars, rvars, text, cvars,
                   sumLog, nvars, uploads>>

\* lines 124-129
SumDirect ==
    /\ pc = "sum_direct"
    /\ \E out \in {Some(x) : x \in SummaryPool} \cup {None} :
          /\ sumLog' = Append(sumLog,
                              SummarizerCall(text, DefaultMaxLength,
                                             DirectMinLength, out))
          /\ IF out # None
             THEN ret' = out[1] /\ pc' = "sum_returned" /\ UNCHANGED exc
             ELSE Raise("SummarizerError") /\ UNCHANGED ret
    /\ UNCHANGED <<hvars, platform, fvars, rvars, text, cvars, chunks,
                   partials, nvars, uploads>>

\* the chunk the comprehension of lines 132-135 summarizes next
NextChunk == chunks[Len(partials) + 1]

\* one element of the comprehension of lines 132-135
SumChunk ==
    /\ pc = "sum_chunks"
    /\ Len(partials) < Len(chunks)
    /\ \E out \in {Some(x) : x \in SummaryPool} \cup {None} :
          /\ sumLog' = Append(sumLog,
                              SummarizerCall(NextChunk, ChunkMaxLength,
                                             DirectMinLength, out))
          /\ IF out # None
             THEN partials' = Append(partials, out[1]) /\ UNCHANGED <<pc, exc>>
             ELSE Raise("SummarizerError") /\ UNCHANGED partials
    /\ UNCHANGED <<ret, hvars, platform, fvars, rvars, text, cvars, chunks,
                   nvars, uploads>>

\* line 137
Combined(parts) == Join(parts)

\* lines 137-143
SumReduce ==
    /\ pc = "sum_chunks"
    /\ Len(partials) = Len(chunks)
    /\ \E out \in {Some(x) : x \in SummaryPool} \cup {None} :
          /\ sumLog' = Append(sumLog,
                              SummarizerCall(Combined(partials),
                                             DefaultMaxLength,
                                             ReduceMinLength, out))
          /\ IF out # None
             THEN ret' = out[1] /\ pc' = "sum_returned" /\ UNCHANGED exc
             ELSE Raise("SummarizerError") /\ UNCHANGED ret
    /\ UNCHANGED <<hvars, platform, fvars, rvars, text, cvars, chunks,
                   partials, nvars, uploads>>

(***************************************************************************)
(* flag_risks_with_nli                                                     *)
(***************************************************************************)
\* the condition under which a pair is a finding: the top label, uppercased,
\* contains ENTAIL and the score is above 0.6
Entailed(top) ==
    /\ \E i \in 1..Len(top.label) :
          /\ i + 5 <= Len(top.label)
          /\ [k \in 1..6 |-> ToUpperChar(top.label[i + k - 1])]
                 = <<"E","N","T","A","I","L">>
    /\ top.score >= ScoreThreshold + 1

\* line 149
NliGet ==
    /\ pc = "nli_get"
    /\ \E ok \in BOOLEAN :
          /\ ok \/ NeedsCtor(_nli_classifier)
          /\ get_nli(ok)
          /\ IF ok THEN pc' = "nli_scan" /\ UNCHANGED exc
             ELSE Raise("PipelineError")
    /\ clause_i' = 1 /\ hyp_i' = 1 /\ flagged' = <<>> /\ scan' = <<>>
    /\ UNCHANGED <<ret, platform, fvars, rvars, text, cvars, svars,
                   nli_clauses, nliCalls, uploads>>

\* what the body of the try statement (lines 162-165) leaves in flagged for
\* the outcome o of the call; an exception (lines 166-167) leaves it as it is
AfterPair(o, h, clause) ==
    IF ~o.raises /\ IsRisk(o) THEN Append(flagged, FormatFinding(h, clause))
    ELSE flagged

\* one pass of the inner loop, lines 160-167
NliPair ==
    /\ pc = "nli_scan"
    /\ clause_i <= Len(nli_clauses)
    /\ \E o \in NliOutcomes :
          /\ flagged' = AfterPair(o, hypotheses[hyp_i], nli_clauses[clause_i])
          /\ scan' = IF ~o.raises /\ Entailed(o)
                     THEN Append(scan, <<clause_i, hyp_i>>) ELSE scan
    /\ nliCalls' = nliCalls + 1
    /\ IF hyp_i < Len(hypotheses)
       THEN hyp_i' = hyp_i + 1 /\ UNCHANGED clause_i
       ELSE hyp_i' = 1 /\ clause_i' = clause_i + 1
    /\ UNCHANGED <<pc, exc, ret, hvars, platform, fvars, rvars, text, cvars,
                   svars, nli_clauses, uploads>>

\* line 169
NliReturn ==
    /\ pc = "nli_scan"
    /\ clause_i > Len(nli_clauses)
    /\ ret' = DictFromKeys(flagged)
    /\ pc' = "nli_returned"
    /\ UNCHANGED <<exc, hvars, platform, fvars, rvars, text, cvars, svars,
                   nvars, uploads>>

(***************************************************************************)
(* analyze_document, the handler of POST /analyze                          *)
(***************************************************************************)
\* Python's truth value of an Optional[str]
Truthy(opt) == opt # None /\ opt[1] # <<>>

\* faulty variant of IsEmptyRequest: an empty text counts as a text
IsEmptyRequestNoneOnly(r) == r.text = None /\ r.file = None

\* the test of line 187
IsEmptyRequest(r) == ~Truthy(r.text) /\ r.file = None

EmptyResult == [summary |-> <<>>, clauses |-> <<>>, flagged_risks |-> <<>>]

\* 800 one-letter words in one paragraph: a document over the threshold
LongDocument == TextOfWords(ChunkThreshold, 1)

PdfUpload ==
    [filename |-> Some(<<"A", ".", "P", "d", "f">>), utf8 |-> None,
     latin1 |-> <<"%", "P", "D", "F">>, pdf |-> ScenarioText]
TextUpload ==
    [filename |-> Some(<<"n", ".", "t", "x", "t">>),
     utf8 |-> Some(ScenarioText), latin1 |-> ScenarioText, pdf |-> <<>>]
Latin1Upload ==
    [filename |-> None, utf8 |-> None, latin1 |-> ScenarioPara1, pdf |-> <<>>]

Requests ==
    [text : {None, Some(<<>>), Some(ScenarioText), Some(LongDocument)},
     file : {None, Some(PdfUpload), Some(TextUpload), Some(Latin1Upload)}]

\* the process is between two requests
Idle == pc \in {"idle", "responded", "raised"}

\* lines 183-190: a request arrives; line 187 answers the empty one at once,
\* line 190 takes the text from the upload when there is one
AnalyzeStart ==
    /\ Idle
    /\ nreq < MaxRequests
    /\ nreq' = nreq + 1
    /\ \E r \in Requests :
          /\ req' = r
          /\ IF IsEmptyRequest(r)
             THEN /\ response' = Some(EmptyResult)
                  /\ pc' = "responded"
                  /\ doc_text' = <<>>
             ELSE /\ response' = <<>>
                  /\ IF r.file # None
                     THEN pc' = "upload_read" /\ doc_text' = <<>>
                     ELSE pc' = "segment" /\ doc_text' = r.text[1]
    /\ exc' = NoExc /\ ret' = None
    /\ tmp' = "none" /\ pend' = NoExc
    /\ summary' = <<>> /\ done' = {}
    /\ text' = <<>> /\ clauses' = <<>>
    /\ chunks' = <<>> /\ partials' = <<>> /\ sumLog' = <<>>
    /\ nli_clauses' = <<>> /\ clause_i' = 1 /\ hyp_i' = 1
    /\ flagged' = <<>> /\ scan' = <<>> /\ nliCalls' = 0
    /\ UNCHANGED <<hvars, platform, max_clauses, uploads>>

\* line 190, when extract_text_from_upload has returned
AnalyzeDocText ==
    /\ pc = "upload_returned"
    /\ doc_text' = ret
    /\ done' = done \cup {"extract"}
    /\ pc' = "segment"
    /\ UNCHANGED <<exc, ret, hvars, platform, fvars, req, nreq, summary,
                   response, text, cvars, svars, nvars, uploads>>

\* line 192, and the call of line 193
AnalyzeSegment ==
    /\ pc = "segment"
    /\ clauses' = extract_clauses(doc_text, DefaultMaxClauses)
    /\ done' = done \cup {"segment"}
    /\ text' = doc_text
    /\ pc' = "sum_get"
    /\ UNCHANGED <<exc, ret, hvars, platform, fvars, req, nreq, doc_text,
                   summary, response, max_clauses, svars, nvars, uploads>>

\* faulty variant of RiskArgument: the paragraphs, not the clauses kept
RiskArgumentAllParas == Paras(doc_text)

\* the argument line 195 gives to flag_risks_with_nli
RiskArgument == clauses

\* line 193, when summarize_text has returned, and the call of line 195
AnalyzeFlag ==
    /\ pc = "sum_returned"
    /\ summary' = ret
    /\ done' = done \cup {"summarize"}
    /\ nli_clauses' = RiskArgument
    /\ pc' = "nli_get"
    /\ UNCHANGED <<exc, ret, hvars, platform, fvars, req, nreq, doc_text,
                   response, text, cvars, svars, clause_i, hyp_i, flagged,
                   scan, nliCalls, uploads>>

\* lines 195-201, when flag_risks_with_nli has returned
AnalyzeRespond ==
    /\ pc = "nli_returned"
    /\ done' = done \cup {"flag"}
    /\ response' = Some([summary |-> summary, clauses |-> clauses,
                         flagged_risks |-> ret])
    /\ pc' = "responded"
    /\ UNCHANGED <<exc, ret, hvars, platform, fvars, req, nreq, doc_text,
                   summary, text, cvars, svars, nvars, uploads>>

Init ==
    /\ pc = "idle"
    /\ platform \in {"posix", "nt"}
    /\ req = None /\ nreq = 0
    /\ text = <<>> /\ max_clauses = DefaultMaxClauses /\ clauses = <<>>
    /\ nli_clauses = <<>>
    /\ NoHandles /\ FreshLocals

Next ==
    \/ AnalyzeStart
    \/ UploadRead \/ TmpCreate \/ TmpWrite \/ TmpClose \/ PdfExtract
    \/ Finally \/ Decode
    \/ AnalyzeDocText \/ AnalyzeSegment
    \/ SumGetSummarizer \/ SumBranch \/ SumDirect \/ SumChunk \/ SumReduce
    \/ AnalyzeFlag
    \/ NliGet \/ NliPair \/ NliReturn
    \/ AnalyzeRespond

Spec == Init /\ [][Next]_vars

(***************************************************************************)
(* summarize_text called on its own                                        *)
(***************************************************************************)
\* the handles of a process that has or has not summarized before
SummarizerBuiltOrNot ==
    \/ NoHandles
    \/ /\ _summarizer = NewPipeline("summarization", 1)
       /\ _nli_classifier = None
       /\ ctorCalls = [summarization |-> 1, classification |-> 0]

InitSummarize ==
    /\ pc = "sum_get"
    /\ text \in SummaryTexts
    /\ platform = "posix"
    /\ req = None /\ nreq = 0
    /\ max_clauses = DefaultMaxClauses /\ clauses = <<>>
    /\ nli_clauses = <<>>
    /\ SummarizerBuiltOrNot /\ FreshLocals

NextSummarize ==
    SumGetSummarizer \/ SumBranch \/ SumDirect \/ SumChunk \/ SumReduce

SpecSummarize == InitSummarize /\ [][NextSummarize]_vars

(***************************************************************************)
(* flag_risks_with_nli called on its own                                   *)
(***************************************************************************)
InitRisks ==
    /\ pc = "nli_get"
    /\ nli_clauses \in ClauseLists
    /\ platform = "posix"
    /\ req = None /\ nreq = 0
    /\ text = <<>> /\ max_clauses = DefaultMaxClauses /\ clauses = <<>>
    /\ NoHandles /\ FreshLocals

NextRisks == NliGet \/ NliPair \/ NliReturn

SpecRisks == InitRisks /\ [][NextRisks]_vars

(***************************************************************************)
(* get_summarizer and get_nli called in any order                          *)
(***************************************************************************)
InitHandles ==
    /\ pc = "main"
    /\ platform = "posix"
    /\ req = None /\ nreq = 0
    /\ text = <<>> /\ max_clauses = DefaultMaxClauses /\ clauses = <<>>
    /\ nli_clauses = <<>>
    /\ NoHandles /\ FreshLocals

\* one call get_summarizer(), lines 50-54
CallGetSummarizer ==
    /\ pc = "main"
    /\ nreq < MaxCalls
    /\ nreq' = nreq + 1
    /\ req' = Some("get_summarizer")
    /\ \E ok \in BOOLEAN :
          /\ ok \/ NeedsCtor(_summarizer)
          /\ get_summarizer(ok)
          /\ IF ok THEN ret' = _summarizer' /\ exc' = NoExc
             ELSE ret' = None /\ exc' = "PipelineError"
    /\ UNCHANGED <<pc, platform, fvars, doc_text, summary, response, done,
                   text, cvars, svars, nvars, uploads>>

\* one call get_nli(), lines 57-65
CallGetNli ==
    /\ pc = "main"
    /\ nreq < MaxCalls
    /\ nreq' = nreq + 1
    /\ req' = Some("get_nli")
    /\ \E ok \in BOOLEAN :
          /\ ok \/ NeedsCtor(_nli_classifier)
          /\ get_nli(ok)
          /\ IF ok THEN ret' = _nli_classifier' /\ exc' = NoExc
             ELSE ret' = None /\ exc' = "PipelineError"
    /\ UNCHANGED <<pc, platform, fvars, doc_text, summary, response, done,
                   text, cvars, svars, nvars, uploads>>

NextHandles == CallGetSummarizer \/ CallGetNli

SpecHandles == InitHandles /\ [][NextHandles]_vars

(***************************************************************************)
(* The legacy endpoints of app.py                                          *)
(***************************************************************************)
\* analyze_contract and extract_text_from_pdf are imported by app.py (lines
\* 4-7) and defined nowhere in the sources: a call returns a value or raises
AnalyzeContractOutcomes ==
    { [raises |-> FALSE, value |-> "analysis", message |-> ""],
      [raises |-> TRUE, value |-> "", message |-> "model unavailable"],
      [raises |-> TRUE, value |-> "", message |-> "out of memory"] }

ExtractPdfOutcomes ==
    { [raises |-> FALSE, value |-> "contract text", message |-> ""],
      [raises |-> TRUE, value |-> "", message |-> "No /Root object"] }

\* JSONResponse(content=.., status_code=..)
JSONResponse(content, status_code) ==
    Some([status |-> status_code, body |-> content])

\* line 53
ErrorResponse(message) == JSONResponse([error |-> message], 500)

\* line 34
SavedName(file) ==
    IF file.filename = None THEN "uploaded_file" ELSE file.filename[1]

LegacyFiles == { [filename |-> Some("a.pdf")], [filename |-> Some("b.pdf")],
                 [filename |-> None] }

InitLegacy ==
    /\ pc = "idle"
    /\ platform = "posix"
    /\ req = None /\ nreq = 0
    /\ text = <<>> /\ max_clauses = DefaultMaxClauses /\ clauses = <<>>
    /\ nli_clauses = <<>>
    /\ NoHandles /\ FreshLocals

\* POST /analyze-text, lines 20-26: no try statement surrounds the call
AnalyzeContractText ==
    /\ Idle
    /\ nreq < MaxRequests
    /\ nreq' = nreq + 1
    /\ req' = [endpoint |-> "/analyze-text", file |-> None]
    /\ \E o \in AnalyzeContractOutcomes :
          IF o.raises
          THEN /\ Raise(o.message)
               /\ response' = <<>>
          ELSE /\ response' = JSONResponse([result |-> o.value], 200)
               /\ pc' = "responded" /\ exc' = NoExc
    /\ UNCHANGED <<ret, hvars, platform, fvars, doc_text, summary, done,
                   text, cvars, svars, nvars, uploads>>

\* POST /analyze-pdf, line 29: a request arrives
AnalyzeContractPdf ==
    /\ Idle
    /\ nreq < MaxRequests
    /\ nreq' = nreq + 1
    /\ \E f \in LegacyFiles :
          req' = [endpoint |-> "/analyze-pdf", file |-> Some(f)]
    /\ response' = <<>> /\ exc' = NoExc /\ ret' = None
    /\ pc' = "pdf_save"
    /\ UNCHANGED <<hvars, platform, fvars, doc_text, summary, done, text,
                   cvars, svars, nvars, uploads>>

\* the except clause of lines 52-53
Caught(message) ==
    /\ response' = ErrorResponse(message)
    /\ pc' = "responded"

\* lines 34-39: the upload is written under UPLOAD_DIR
PdfSave ==
    /\ pc = "pdf_save"
    /\ \/ /\ uploads' = uploads \cup {SavedName(req.file[1])}
          /\ pc' = "pdf_text"
          /\ UNCHANGED response
       \/ Caught("Permission denied") /\ UNCHANGED uploads
    /\ UNCHANGED <<exc, ret, hvars, platform, fvars, req, nreq, doc_text,
                   summary, done, text, cvars, svars, nvars>>

\* line 42
PdfText ==
    /\ pc = "pdf_text"
    /\ \E o \in ExtractPdfOutcomes :
          IF o.raises THEN Caught(o.message) /\ UNCHANGED ret
          ELSE ret' = Some(o.value) /\ pc' = "pdf_analyze"
               /\ UNCHANGED response
    /\ UNCHANGED <<exc, hvars, platform, fvars, req, nreq, doc_text, summary,
                   done, text, cvars, svars, nvars, uploads>>

\* line 45
PdfAnalyze ==
    /\ pc = "pdf_analyze"
    /\ \E o \in AnalyzeContractOutcomes :
          IF o.raises THEN Caught(o.message) /\ UNCHANGED ret
          ELSE ret' = Some(o.value) /\ pc' = "pdf_remove"
               /\ UNCHANGED response
    /\ UNCHANGED <<exc, hvars, platform, fvars, req, nreq, doc_text, summary,
                   done, text, cvars, svars, nvars, uploads>>

\* lines 48-50
PdfRemove ==
    /\ pc = "pdf_remove"
    /\ \/ /\ uploads' = uploads \ {SavedName(req.file[1])}
          /\ response' = JSONResponse([result |-> ret[1]], 200)
          /\ pc' = "responded"
       \/ Caught("Permission denied") /\ UNCHANGED uploads
    /\ UNCHANGED <<exc, ret, hvars, platform, fvars, req, nreq, doc_text,
                   summary, done, text, cvars, svars, nvars>>

NextLegacy ==
    \/ AnalyzeContractText
    \/ AnalyzeContractPdf \/ PdfSave \/ PdfText \/ PdfAnalyze \/ PdfRemove

SpecLegacy == InitLegacy /\ [][NextLegacy]_vars

(***************************************************************************)
(* Properties                                                              *)
(***************************************************************************)
\* a is b with some elements left out, the others in b's order
RECURSIVE IsSubsequenceFrom(_, _, _, _)
IsSubsequenceFrom(a, i, b, j) ==
    IF i > Len(a) THEN TRUE
    ELSE IF j > Len(b) THEN FALSE
    ELSE IF a[i] = b[j] THEN IsSubsequenceFrom(a, i + 1, b, j + 1)
    ELSE IsSubsequenceFrom(a, i, b, j + 1)

IsSubsequence(a, b) == IsSubsequenceFrom(a, 1, b, 1)

\* C1: for every text and every max_clauses >= 0, 0 included,
\* extract_clauses returns at most max_clauses entries, in the order their
\* paragraphs have in the text.
C1_AtMostMaxClausesInOrder ==
    pc = "clauses_returned" =>
        /\ Len(clauses) <= max_clauses
        /\ IsSubsequence(clauses, Paras(text))

\* C2, as stated: for the two-paragraph scenario text extract_clauses
\* returns exactly 2 clauses, both paragraphs passing the length filter.
C2_ScenarioTwoClauses ==
    (pc = "clauses_returned" /\ text = ScenarioText
        /\ max_clauses = DefaultMaxClauses)
    => Len(clauses) = 2

\* C2, amended: for the two-paragraph scenario text extract_clauses returns
\* exactly 1 clause, the first paragraph (66 characters); the second
\* paragraph is 37 characters long and does not pass the filter, which keeps
\* a paragraph only if its trimmed length exceeds 40.
C2_ScenarioOneClause ==
    (pc = "clauses_returned" /\ text = ScenarioText
        /\ max_clauses = DefaultMaxClauses)
    => /\ clauses = <<ScenarioPara1>>
       /\ Len(ScenarioPara1) = 66
       /\ Len(Strip(ScenarioPara2)) = 37

C2_Witness ==
    /\ pc = "clauses_returned"
    /\ text = ScenarioText
    /\ max_clauses = DefaultMaxClauses
    /\ Len(clauses) = 1

\* the number of white-space separated words of t
WordCount(t) == Cardinality({i \in 1..Len(t) : IsWordStart(t, i)})

\* ceil(w / 700)
ChunkCount(w) == (w + ChunkWords - 1) \div ChunkWords

\* words (k-1)*700+1 .. k*700 of the word list ws, joined by single blanks
ChunkOf(ws, k) ==
    Join(SubSeq(ws, (k - 1) * ChunkWords + 1, Min2(k * ChunkWords, Len(ws))))

\* C3: summarize_text invokes the summarization capability exactly once for
\* a text of fewer than 800 words, and otherwise ceil(w/700) times on the
\* chunks, in order, and then exactly once more on the partial summaries
\* joined in chunk order (2000 words: 3 + 1 invocations); the reduce
\* invocation is made only after every chunk invocation has returned.
C3_SummarizerInvocations ==
    (pc = "sum_returned"
        \/ \E i \in 1..Len(sumLog) : sumLog[i].min_length = ReduceMinLength)
    => \A w \in {WordCount(text)} : \A n \in {ChunkCount(w)} :
        /\ \A i \in 1..Len(sumLog) :
              sumLog[i].min_length = ReduceMinLength =>
                  /\ i = n + 1
                  /\ \A j \in 1..n : sumLog[j].output # None
        /\ pc = "sum_returned" =>
              IF w < ChunkThreshold
              THEN /\ Len(sumLog) = 1
                   /\ sumLog[1].input = text
              ELSE /\ Len(sumLog) = n + 1
                   /\ \A ws \in {Words(text)} : \A k \in 1..n :
                         /\ sumLog[k].input = ChunkOf(ws, k)
                         /\ sumLog[k].max_length = ChunkMaxLength
                   /\ sumLog[n + 1].input =
                          Join([k \in 1..n |-> sumLog[k].output[1]])
                   /\ w = 2000 => Len(sumLog) = 4

C3_Witness ==
    /\ pc = "sum_returned"
    /\ WordCount(text) = 2000
    /\ Len(sumLog) = 4
    /\ sumLog[1].output # sumLog[2].output

\* C4: flag_risks_with_nli never raises, whatever fails in the entailment
\* capability, the failure to obtain it on first use included: it returns a
\* list, and every pair has been evaluated.
C4_NeverRaises ==
    /\ pc # "raised"
    /\ pc = "nli_returned" =>
          nliCalls = Len(nli_clauses) * Len(hypotheses)

\* the elements of s, every occurrence after the first of an equal element
\* left out
FirstOccurrences(s) ==
    LET keep == {i \in 1..Len(s) : \A j \in 1..(i - 1) : s[j] # s[i]}
        nth(k) == CHOOSE i \in keep : Cardinality({j \in keep : j <= i}) = k
    IN  [k \in 1..Cardinality(keep) |-> s[nth(k)]]

\* C5: the list flag_risks_with_nli returns holds no string twice, and is
\* the findings of the scan (clauses in order, the four hypotheses in order
\* within a clause, a finding exactly for a pair whose top label uppercased
\* contains ENTAIL with a score above 0.6), every occurrence after the
\* first of an equal string removed.
C5_FindingsInOrderWithoutDuplicates ==
    pc = "nli_returned" =>
        LET found == [k \in 1..Len(scan) |->
                         FormatFinding(hypotheses[scan[k][2]],
                                       nli_clauses[scan[k][1]])]
        IN  /\ \A i, j \in 1..Len(ret) : i # j => ret[i] # ret[j]
            /\ ret = FirstOccurrences(found)

C5_Witness ==
    /\ pc = "nli_returned"
    /\ Len(scan) = 4
    /\ Len(ret) = 2
    /\ nli_clauses[1] # nli_clauses[2]

\* a request with neither text nor file, as the claim has it
NoTextNoFile(r) ==
    /\ r # None
    /\ r.text \in {None, Some(<<>>)}
    /\ r.file = None

\* C6: a request to /analyze with no text (absent or empty) and no file is
\* answered {summary: "", clauses: [], flagged_risks: []}; while it is
\* served no capability is constructed or invoked and no text is extracted.
C6_EmptyRequestShortCircuits ==
    [][ NoTextNoFile(req') =>
          /\ pc' = "responded"
          /\ response' = Some([summary |-> <<>>, clauses |-> <<>>,
                               flagged_risks |-> <<>>])
          /\ UNCHANGED <<_summarizer, _nli_classifier, ctorCalls>>
          /\ sumLog' = <<>> /\ nliCalls' = 0
          /\ tmp' = "none" /\ done' = {} ]_vars

C6_Witness ==
    /\ NoTextNoFile(req)
    /\ req.text = Some(<<>>)
    /\ pc = "responded"
    /\ nreq = 2
    /\ _summarizer # None

\* the positions inside extract_text_from_upload
UploadPcs == {"upload_read", "tmp_create", "tmp_write", "tmp_close",
              "pdf_extract", "finally", "decode"}

\* C7: when extract_text_from_upload ends for a .pdf upload the temporary
\* file no longer exists, whether extraction succeeded, the write failed or
\* the extraction failed; and a failed extraction reaches the caller.
C7_TempFileGoneOnEveryExit ==
    pc \notin UploadPcs =>
        /\ tmp \in {"none", "removed"}
        /\ pend = "PDFSyntaxError" =>
              pc = "raised" /\ exc = "PDFSyntaxError"

\* C8: on /analyze-text and /analyze-pdf every failure becomes a response
\* of status 500 with body {"error": message}; no exception leaves either
\* handler.
C8_LegacyFailuresAnswered ==
    /\ pc # "raised"
    /\ (pc = "responded" /\ response[1].status # 200) =>
          response[1].status = 500

\* C9: a handle is constructed only when its variable is unset; once
\* constructed it is never reset or replaced, the constructor is not
\* invoked again for it, and every later call returns it; a failed
\* construction leaves the variable unset and the next call constructs.
C9_HandlesBuiltOnce ==
    [][ /\ ctorCalls'.summarization # ctorCalls.summarization =>
              _summarizer = None
        /\ ctorCalls'.classification # ctorCalls.classification =>
              _nli_classifier = None
        /\ _summarizer # None =>
              /\ _summarizer' = _summarizer
              /\ ctorCalls'.summarization = ctorCalls.summarization
              /\ req' = Some("get_summarizer") => ret' = _summarizer
        /\ _nli_classifier # None =>
              /\ _nli_classifier' = _nli_classifier
              /\ ctorCalls'.classification = ctorCalls.classification
              /\ req' = Some("get_nli") => ret' = _nli_classifier
        /\ (req' = Some("get_summarizer") /\ _summarizer = None) =>
              /\ ctorCalls'.summarization = ctorCalls.summarization + 1
              /\ IF exc' = NoExc
                 THEN _summarizer' # None /\ ret' = _summarizer'
                 ELSE _summarizer' = None
        /\ (req' = Some("get_nli") /\ _nli_classifier = None) =>
              /\ ctorCalls'.classification = ctorCalls.classification + 1
              /\ IF exc' = NoExc
                 THEN _nli_classifier' # None /\ ret' = _nli_classifier'
                 ELSE _nli_classifier' = None ]_vars

C9_Witness ==
    /\ req = Some("get_summarizer")
    /\ nreq = MaxCalls
    /\ ctorCalls.summarization = 2
    /\ ret = NewPipeline("summarization", 2)
    /\ _nli_classifier # None

\* the positions inside flag_risks_with_nli
NliPcs == {"nli_get", "nli_scan", "nli_returned"}

\* the summarization capability failed in the request being served
SummarizationFailed ==
    \/ \E i \in 1..Len(sumLog) : sumLog[i].output = None
    \/ exc = "PipelineError" /\ "summarize" \notin done

\* C10: in the /analyze handler risk flagging starts only when clause
\* segmentation and summarization have both completed, and it is given the
\* segmenter's output; when text extraction or the summarization capability
\* fails the failure leaves the handler, no result is returned and the
\* entailment capability is not invoked for the request.
C10_FlaggingAfterSegmentAndSummary ==
    /\ (pc \in NliPcs \/ nliCalls > 0 \/ "flag" \in done) =>
          /\ {"segment", "summarize"} \subseteq done
          /\ nli_clauses = clauses
    /\ pc = "nli_get" =>
          nli_clauses = extract_clauses(doc_text, DefaultMaxClauses)
    /\ ((pend # NoExc /\ pc \notin UploadPcs) \/ SummarizationFailed) =>
          /\ pc = "raised" /\ exc # NoExc
          /\ response = <<>>
          /\ nliCalls = 0
          /\ "flag" \notin done

C10_Witness ==
    /\ pc = "nli_scan"
    /\ nliCalls = 1
    /\ "extract" \in done
    /\ Len(nli_clauses) = 1
    /\ nreq = 2
    /\ _nli_classifier = NewPipeline("text-classification", 2)

=============================================================================
